---- MODULE Spec2Model ----
(***************************************************************************)
(* PMJSON version metadata (Sources/PMJSON.h).                             *)
(*                                                                         *)
(* The header declares two exported symbols:                               *)
(*     extern double PMJSONVersionNumber;                                  *)
(*     extern const unsigned char PMJSONVersionString[];                   *)
(* The model holds, for each built artifact, the storage of the two        *)
(* symbols, and a set of consumer threads, each linked against one         *)
(* artifact, that use the symbols in the ways the declarations admit:      *)
(* loading the number, scanning the string up to its terminator, and       *)
(* assigning to a symbol whose declared type is not const-qualified.       *)
(*                                                                         *)
(* A double is represented by the integer ten times its value (1.0 is 10). *)
(* A load or store of the number is one step; a byte of the string is an   *)
(* integer in 0..255.                                                      *)
(***************************************************************************)
EXTENDS Integers, Sequences, FiniteSets

\* ---------------------------------------------------------------- bounds
NumThreads == 2

Threads == 1..NumThreads

\* Two independently built artifacts.
Artifacts == {"a1", "a2"}

\* ------------------------------------------------------- build-time stamp
\* The terminator of the version string.
Sentinel == 0

\* The versions a build may be stamped with: the number and the text
\* ("1.0.0", "1.2.3", "2.0" as bytes).
Builds ==
    { [number |-> 10, text |-> <<49, 46, 48, 46, 48>>],
      [number |-> 12, text |-> <<49, 46, 50, 46, 51>>],
      [number |-> 20, text |-> <<50, 46, 48>>] }

\* The values the build gives the two symbols of an artifact stamped b.
Stamp(b) == [number |-> b.number, string |-> b.text \o <<Sentinel>>]

\* The doubles of the model.
Doubles == { b.number : b \in Builds }

\* The bytes of the model.
Bytes == {Sentinel} \cup UNION { { b.text[i] : i \in 1..Len(b.text) } : b \in Builds }

\* ------------------------------------------------------------ the header
Symbols == {"PMJSONVersionNumber", "PMJSONVersionString"}

\* IsConst with the qualifier of the string's declaration dropped.
IsConstNoQualifier(sym) == FALSE

\* Whether the declared type of sym is const-qualified.
IsConst(sym) == sym = "PMJSONVersionString"

\* What a thread holds before its first read; after a read it holds the
\* one-element sequence of the value read.
Unread == <<>>

VARIABLES
    stamped,               \* artifact -> the values its build stamped
    PMJSONVersionNumber,   \* artifact -> the double stored in the symbol
    PMJSONVersionString,   \* artifact -> the bytes stored in the symbol
    image,                 \* thread -> the artifact it is linked against
    readNumber,            \* thread -> the last number it loaded, or Unread
    readString             \* thread -> the last string it scanned, or Unread

vars == <<stamped, PMJSONVersionNumber, PMJSONVersionString, image,
          readNumber, readString>>

\* -------------------------------------------------------------- reading
RECURSIVE ScanFrom(_, _)
\* The bytes of mem from index i up to and including the first Sentinel;
\* overrun when the scan leaves the array without meeting one.
ScanFrom(mem, i) ==
    IF i > Len(mem) THEN [bytes |-> <<>>, overrun |-> TRUE]
    ELSE IF mem[i] = Sentinel THEN [bytes |-> <<mem[i]>>, overrun |-> FALSE]
    ELSE LET rest == ScanFrom(mem, i + 1)
         IN  [bytes |-> <<mem[i]>> \o rest.bytes, overrun |-> rest.overrun]

RECURSIVE ScanBefore(_, _)
\* ScanFrom stopping before the terminator instead of after it.
ScanBefore(mem, i) ==
    IF i > Len(mem) THEN [bytes |-> <<>>, overrun |-> TRUE]
    ELSE IF mem[i] = Sentinel THEN [bytes |-> <<>>, overrun |-> FALSE]
    ELSE LET rest == ScanBefore(mem, i + 1)
         IN  [bytes |-> <<mem[i]>> \o rest.bytes, overrun |-> rest.overrun]

\* CString without its terminator.
CStringUnterminated(mem) == ScanBefore(mem, 1)

\* The string a consumer reads from an array of unknown bound.
CString(mem) == ScanFrom(mem, 1)

Init ==
    /\ stamped \in [Artifacts -> { Stamp(b) : b \in Builds }]
    /\ PMJSONVersionNumber = [a \in Artifacts |-> stamped[a].number]
    /\ PMJSONVersionString = [a \in Artifacts |-> stamped[a].string]
    /\ image \in [Threads -> Artifacts]
    /\ readNumber = [t \in Threads |-> Unread]
    /\ readString = [t \in Threads |-> Unread]

\* A load that also clears the symbol it has read.
GetVersionNumberWriting(t) ==
    /\ readNumber' = [readNumber EXCEPT ![t] = <<PMJSONVersionNumber[image[t]]>>]
    /\ PMJSONVersionNumber' =
           [PMJSONVersionNumber EXCEPT ![image[t]] = 0]
    /\ UNCHANGED <<stamped, PMJSONVersionString, image, readString>>

\* Thread t loads PMJSONVersionNumber of its artifact.
GetVersionNumber(t) ==
    /\ readNumber' = [readNumber EXCEPT ![t] = <<PMJSONVersionNumber[image[t]]>>]
    /\ UNCHANGED <<stamped, PMJSONVersionNumber, PMJSONVersionString, image,
                   readString>>

\* A string read that answers only the first time it is asked.
GetVersionStringOnce(t) ==
    /\ readString[t] = Unread
    /\ readString' = [readString EXCEPT ![t] =
                       <<CString(PMJSONVersionString[image[t]])>>]
    /\ UNCHANGED <<stamped, PMJSONVersionNumber, PMJSONVersionString, image,
                   readNumber>>

\* Thread t reads PMJSONVersionString of its artifact.
GetVersionString(t) ==
    /\ readString' = [readString EXCEPT ![t] =
                       <<CString(PMJSONVersionString[image[t]])>>]
    /\ UNCHANGED <<stamped, PMJSONVersionNumber, PMJSONVersionString, image,
                   readNumber>>

\* ------------------------------------------------------------ assigning
\* StoreTo writing the symbol of every artifact, not only of a.
StoreToEvery(a, sym) ==
    \/ /\ sym = "PMJSONVersionNumber"
       /\ \E v \in Doubles :
            /\ v # PMJSONVersionNumber[a]
            /\ PMJSONVersionNumber' = [b \in Artifacts |-> v]
       /\ UNCHANGED PMJSONVersionString
    \/ /\ sym = "PMJSONVersionString"
       /\ \E i \in 1..Len(PMJSONVersionString[a]), c \in Bytes :
            /\ c # PMJSONVersionString[a][i]
            /\ PMJSONVersionString' =
                   [b \in Artifacts |->
                       IF i <= Len(PMJSONVersionString[b])
                       THEN [PMJSONVersionString[b] EXCEPT ![i] = c]
                       ELSE PMJSONVersionString[b]]
       /\ UNCHANGED PMJSONVersionNumber

\* The effect of an assignment to symbol sym of artifact a.
StoreTo(a, sym) ==
    \/ /\ sym = "PMJSONVersionNumber"
       /\ \E v \in Doubles :
            /\ v # PMJSONVersionNumber[a]
            /\ PMJSONVersionNumber' = [PMJSONVersionNumber EXCEPT ![a] = v]
       /\ UNCHANGED PMJSONVersionString
    \/ /\ sym = "PMJSONVersionString"
       /\ \E i \in 1..Len(PMJSONVersionString[a]), c \in Bytes :
            /\ c # PMJSONVersionString[a][i]
            /\ PMJSONVersionString' =
                   [PMJSONVersionString EXCEPT ![a][i] = c]
       /\ UNCHANGED PMJSONVersionNumber

\* Thread t assigns to a symbol of its artifact; the declarations admit the
\* assignment only when the symbol's type is not const-qualified.
Store(t) ==
    /\ \E sym \in Symbols :
         /\ ~IsConst(sym)
         /\ StoreTo(image[t], sym)
    /\ UNCHANGED <<stamped, image, readNumber, readString>>

Next ==
    \E t \in Threads :
        \/ GetVersionNumber(t)
        \/ GetVersionString(t)
        \/ Store(t)

Spec == Init /\ [][Next]_vars

\* ----------------------------------------------------------- properties
\* s ends with the Sentinel and holds no Sentinel before its last element.
Terminated(s) ==
    /\ Len(s) >= 1
    /\ s[Len(s)] = Sentinel
    /\ \A i \in 1..(Len(s) - 1) : s[i] # Sentinel

\* Thread t takes a step of any kind.
Step(t) == GetVersionNumber(t) \/ GetVersionString(t) \/ Store(t)

\* Some thread has assigned to the number of artifact a.
NumberOverwritten(a) == PMJSONVersionNumber[a] # stamped[a].number

\* C1: in every reachable state both symbols of every artifact hold exactly
\* the values the build stamped.
C1_WriteOnce ==
    \A a \in Artifacts :
        /\ PMJSONVersionNumber[a] = stamped[a].number
        /\ PMJSONVersionString[a] = stamped[a].string

\* C2: every read of the version number of an artifact returns the stamped
\* number, so any two reads of the same artifact agree.
C2_NumberReadsAgree ==
    \A t \in Threads :
        readNumber[t] # Unread =>
            /\ readNumber[t][1] = stamped[image[t]].number
            /\ \A u \in Threads :
                 (image[u] = image[t] /\ readNumber[u] # Unread)
                     => readNumber[u] = readNumber[t]

\* C3: every read of the version string of an artifact returns the stamped
\* byte sequence, whose last element is the sentinel and which holds no
\* sentinel before it.
C3_StringReadsAgree ==
    \A t \in Threads :
        readString[t] # Unread =>
            /\ readString[t][1].bytes = stamped[image[t]].string
            /\ ~readString[t][1].overrun
            /\ Terminated(readString[t][1].bytes)

C3_Witness ==
    \E t, u \in Threads :
        /\ t # u
        /\ image[t] = image[u]
        /\ readString[t] # Unread
        /\ readString[u] # Unread
        /\ Len(readString[t][1].bytes) > 1

\* C4: threads reading the number and the string of one artifact
\* concurrently each observe exactly the stamped values, in every
\* interleaving.
C4_ConcurrentReaders ==
    \A t, u \in Threads :
        ( /\ t # u
          /\ image[t] = image[u]
          /\ readNumber[t] # Unread /\ readString[t] # Unread
          /\ readNumber[u] # Unread /\ readString[u] # Unread )
        => \A w \in {t, u} :
             /\ readNumber[w][1] = stamped[image[w]].number
             /\ readString[w][1].bytes = stamped[image[w]].string

\* C5: a read of the number or of the string changes nothing but the value
\* the reading thread receives: both symbols of every artifact, the stamps,
\* the linkage and every other thread's values are as before.
C5_ReadsHaveNoSideEffects ==
    [][ \A t \in Threads :
          (GetVersionNumber(t) \/ GetVersionString(t)) =>
              /\ PMJSONVersionNumber' = PMJSONVersionNumber
              /\ PMJSONVersionString' = PMJSONVersionString
              /\ stamped' = stamped
              /\ image' = image
              /\ \A u \in Threads \ {t} :
                   /\ readNumber'[u] = readNumber[u]
                   /\ readString'[u] = readString[u] ]_vars

C5_Witness ==
    \E t \in Threads :
        /\ readNumber[t] # Unread
        /\ readString[t] # Unread
        /\ readNumber[t][1] = stamped[image[t]].number
        /\ readString[t][1].bytes = stamped[image[t]].string
        /\ ~NumberOverwritten(image[t])

\* C6: in every reachable state both reads are enabled for every thread,
\* and what a read has returned is a value: a double, or a terminated
\* string, never an error.
C6_ReadsNeverFail ==
    \A t \in Threads :
        /\ ENABLED GetVersionNumber(t)
        /\ ENABLED GetVersionString(t)
        /\ readNumber[t] # Unread => readNumber[t][1] \in Doubles
        /\ readString[t] # Unread => ~readString[t][1].overrun

C6_Witness ==
    \E t \in Threads :
        /\ readNumber[t] # Unread
        /\ readString[t] # Unread
        /\ NumberOverwritten(image[t])

\* C7: a step of a thread linked against one artifact leaves both symbols
\* of the other artifact, and what its readers hold, unchanged; and an
\* artifact that only the threads of the other artifact run beside holds
\* exactly its own stamp.
C7_NoCrossContamination ==
    /\ [][ \A t \in Threads :
             Step(t) =>
               \A b \in Artifacts \ {image[t]} :
                 /\ PMJSONVersionNumber'[b] = PMJSONVersionNumber[b]
                 /\ PMJSONVersionString'[b] = PMJSONVersionString[b]
                 /\ \A u \in Threads :
                      image[u] = b =>
                        /\ readNumber'[u] = readNumber[u]
                        /\ readString'[u] = readString[u] ]_vars
    /\ [](\A b \in Artifacts :
             (\A t \in Threads : image[t] # b) =>
                 /\ PMJSONVersionNumber[b] = stamped[b].number
                 /\ CString(PMJSONVersionString[b]).bytes = stamped[b].string)

C7_Witness ==
    \E t, u \in Threads :
        /\ image[t] # image[u]
        /\ stamped[image[t]] # stamped[image[u]]
        /\ NumberOverwritten(image[t])
        /\ PMJSONVersionNumber[image[t]] = stamped[image[u]].number
        /\ readNumber[u] # Unread
        /\ readString[u] # Unread
        /\ readNumber[u][1] = stamped[image[u]].number
        /\ readString[u][1].bytes = stamped[image[u]].string

\* C8: the contents of the component never change: no step takes either
\* symbol of any artifact to a different value.
C8_SingleState ==
    [][ /\ PMJSONVersionNumber' = PMJSONVersionNumber
        /\ PMJSONVersionString' = PMJSONVersionString ]_vars

\* C9: the declarations protect the symbols asymmetrically: no step changes
\* a byte of the string, whereas an assignment to the number is always
\* admitted, changes the number, and a read of the number returns what the
\* symbol holds at that moment, assigned or stamped.
C9_AsymmetricProtection ==
    /\ [](\A t \in Threads : ENABLED Store(t))
    /\ [][ /\ PMJSONVersionString' = PMJSONVersionString
           /\ \A t \in Threads :
                /\ Store(t) =>
                     PMJSONVersionNumber'[image[t]] # PMJSONVersionNumber[image[t]]
                /\ GetVersionNumber(t) =>
                     readNumber'[t] = <<PMJSONVersionNumber[image[t]]>> ]_vars

C9_Witness ==
    \E t \in Threads :
        /\ readNumber[t] # Unread
        /\ readNumber[t][1] # stamped[image[t]].number
        /\ readString[t] # Unread
        /\ readString[t][1].bytes = stamped[image[t]].string
        /\ PMJSONVersionString[image[t]] = stamped[image[t]].string

====
